---- MODULE Spec2Model ----
(***************************************************************************)
(* Model of youtube_to_spotify.py: the playlist migration run              *)
(* (PlaylistMigrator.migrate_playlist driven by main), its per-item        *)
(* pipeline (_process_song, _enhanced_spotify_search) and the pure text    *)
(* functions it rests on (TitleParser, _clean_channel_name, FuzzyMatcher). *)
(*                                                                         *)
(* A Python str is a sequence of one-character strings: "a-b" is           *)
(* <<"a", "-", "b">>.  Messages and URIs that the program never takes      *)
(* apart (error texts, track URIs) are TLA+ strings.                       *)
(***************************************************************************)
EXTENDS Integers, Sequences, FiniteSets, TLC

(***************************************************************************)
(* Strings                                                                 *)
(***************************************************************************)

\* Python's \s and str.strip() whitespace; the blank is the only whitespace
\* character of the labels the model draws.
IsSpace(c) == c = " "

UpperCase == <<"A", "B", "C", "D", "E", "F", "G", "H", "I", "J", "K", "L", "M",
               "N", "O", "P", "Q", "R", "S", "T", "U", "V", "W", "X", "Y", "Z">>
LowerCase == <<"a", "b", "c", "d", "e", "f", "g", "h", "i", "j", "k", "l", "m",
               "n", "o", "p", "q", "r", "s", "t", "u", "v", "w", "x", "y", "z">>

\* str.lower() on one character, and on a string.
LowerChar(c) ==
    IF \E i \in 1..Len(UpperCase) : UpperCase[i] = c
    THEN LowerCase[CHOOSE i \in 1..Len(UpperCase) : UpperCase[i] = c]
    ELSE c

Lower(s) == [i \in 1..Len(s) |-> LowerChar(s[i])]

\* s[from:] in Python terms, with 1-based from.
Drop(s, from) == SubSeq(s, from, Len(s))

\* str.startswith / str.endswith.
StartsWith(s, p) == Len(p) <= Len(s) /\ SubSeq(s, 1, Len(p)) = p
EndsWith(s, p) == Len(p) <= Len(s) /\ SubSeq(s, Len(s) - Len(p) + 1, Len(s)) = p

\* Number of consecutive whitespace characters of s starting at position p.
RECURSIVE WsRun(_, _)
WsRun(s, p) == IF p <= Len(s) /\ IsSpace(s[p]) THEN 1 + WsRun(s, p + 1) ELSE 0

\* str.strip().
RECURSIVE LStrip(_)
LStrip(s) == IF s # <<>> /\ IsSpace(Head(s)) THEN LStrip(Tail(s)) ELSE s

RECURSIVE RStrip(_)
RStrip(s) ==
    IF s # <<>> /\ IsSpace(s[Len(s)]) THEN RStrip(SubSeq(s, 1, Len(s) - 1)) ELSE s

Strip(s) == RStrip(LStrip(s))

\* str.replace(sub, ''): every leftmost non-overlapping occurrence removed.
RECURSIVE RemoveAll(_, _)
RemoveAll(s, sub) ==
    IF s = <<>> THEN <<>>
    ELSE IF StartsWith(s, sub) THEN RemoveAll(Drop(s, Len(sub) + 1), sub)
    ELSE <<Head(s)>> \o RemoveAll(Tail(s), sub)

(***************************************************************************)
(* TitleParser                                                             *)
(***************************************************************************)

\* re.sub(r'\[.*?\]', '', text) and re.sub(r'\(.*?\)', '', text): each
\* opening character together with everything up to the first closing
\* character after it is removed; an unclosed opening character stays.
RECURSIVE RemoveSpans(_, _, _)
RemoveSpans(s, open, close) ==
    IF s = <<>> THEN <<>>
    ELSE IF Head(s) = open /\ \E j \in 2..Len(s) : s[j] = close
    THEN LET j == CHOOSE k \in 2..Len(s) :
                      s[k] = close /\ \A m \in 2..(k - 1) : s[m] # close
         IN RemoveSpans(Drop(s, j + 1), open, close)
    ELSE <<Head(s)>> \o RemoveSpans(Tail(s), open, close)

FeatWords == << <<"f", "e", "a", "t", ".">>,
                <<"f", "t", ".">>,
                <<"f", "e", "a", "t", "u", "r", "i", "n", "g">> >>

\* (feat\.|ft\.|featuring)\s+.+ matches at position p of s (IGNORECASE): one of
\* the words, then at least one whitespace character, then at least one more
\* character.
FeatAt(s, p) ==
    \E w \in 1..Len(FeatWords) :
        LET kw == FeatWords[w]
            q == p + Len(kw)
        IN /\ q + 1 <= Len(s)
           /\ Lower(SubSeq(s, p, q - 1)) = kw
           /\ IsSpace(s[q])

\* re.sub(r'(feat\.|ft\.|featuring)\s+.+', '', text, flags=re.IGNORECASE):
\* the match runs to the end of the text, so the text is cut at the first match.
RemoveFeat(s) ==
    IF \E p \in 1..Len(s) : FeatAt(s, p)
    THEN LET p == CHOOSE k \in 1..Len(s) :
                      FeatAt(s, k) /\ \A m \in 1..(k - 1) : ~FeatAt(s, m)
         IN SubSeq(s, 1, p - 1)
    ELSE s

\* re.sub(r'\s+', ' ', text): every whitespace run becomes one blank.
RECURSIVE CollapseSpaces(_)
CollapseSpaces(s) ==
    IF s = <<>> THEN <<>>
    ELSE IF IsSpace(Head(s)) THEN <<" ">> \o CollapseSpaces(LStrip(s))
    ELSE <<Head(s)>> \o CollapseSpaces(Tail(s))

clean_text(text) ==
    Strip(CollapseSpaces(RemoveFeat(
        RemoveSpans(RemoveSpans(text, "[", "]"), "(", ")"))))

\* The result of re.match: <<>> for no match, else <<group 1, group 2>>.
NoMatch == <<>>

\* Group 2 of a trailing \s*(.+)$ or \s+(.+)$ that starts at position p with
\* a run of r whitespace characters: the rest after the run, or, when the run
\* reaches the end, its last character (the run gives one character back).
TailGroup(t, p, r) ==
    IF p + r <= Len(t) THEN Drop(t, p + r) ELSE Drop(t, Len(t))

\* ^(.+?)\s*SEP\s*(.+)$ with group 1 of length L.
SepAt(t, sep, L) ==
    LET q == L + WsRun(t, L + 1) + 1
    IN q < Len(t) /\ t[q] = sep

MatchSep(t, sep) ==
    IF \E L \in 1..Len(t) : SepAt(t, sep, L)
    THEN LET L == CHOOSE k \in 1..Len(t) :
                      SepAt(t, sep, k) /\ \A m \in 1..(k - 1) : ~SepAt(t, sep, m)
             q == L + WsRun(t, L + 1) + 1
         IN <<SubSeq(t, 1, L), TailGroup(t, q + 1, WsRun(t, q + 1))>>
    ELSE NoMatch

\* ^(.+?)\s+by\s+(.+)$ (IGNORECASE) with group 1 of length L: at least one
\* whitespace character on each side of "by" and one more character after.
ByAt(t, L) ==
    LET k == WsRun(t, L + 1)
        q == L + k + 2
        r == WsRun(t, q + 1)
    IN /\ k >= 1
       /\ q <= Len(t)
       /\ Lower(SubSeq(t, q - 1, q)) = <<"b", "y">>
       /\ r >= 1
       /\ (q + r < Len(t) \/ r >= 2)

MatchBy(t) ==
    IF \E L \in 1..Len(t) : ByAt(t, L)
    THEN LET L == CHOOSE k \in 1..Len(t) :
                      ByAt(t, k) /\ \A m \in 1..(k - 1) : ~ByAt(t, m)
             q == L + WsRun(t, L + 1) + 2
             r == WsRun(t, q + 1)
         IN <<SubSeq(t, 1, L),
              IF q + r < Len(t) THEN Drop(t, q + r + 1) ELSE Drop(t, Len(t))>>
    ELSE NoMatch

\* The two curly quotes U+201C and U+201D, each one character.
LDQUO == "LDQUO"
RDQUO == "RDQUO"

\* ^(.+?)\s*["“](.+?)["”]$ with group 1 of length L.
QuoteAt(t, L) ==
    LET q == L + WsRun(t, L + 1) + 1
    IN /\ q + 2 <= Len(t)
       /\ t[q] \in {"\"", LDQUO}
       /\ t[Len(t)] \in {"\"", RDQUO}

MatchQuote(t) ==
    IF \E L \in 1..Len(t) : QuoteAt(t, L)
    THEN LET L == CHOOSE k \in 1..Len(t) :
                      QuoteAt(t, k) /\ \A m \in 1..(k - 1) : ~QuoteAt(t, m)
             q == L + WsRun(t, L + 1) + 1
         IN <<SubSeq(t, 1, L), SubSeq(t, q + 1, Len(t) - 1)>>
    ELSE NoMatch

\* parse_title: <<artist, title>>.  The patterns are tried in the order of
\* self.patterns; the "by" pattern swaps its groups.
parse_title(title) ==
    LET t == clean_text(title)
        m1 == MatchSep(t, "-")
        m2 == MatchSep(t, ":")
        m3 == MatchBy(t)
        m4 == MatchSep(t, "|")
        m5 == MatchQuote(t)
    IN IF m1 # NoMatch THEN <<Strip(m1[1]), Strip(m1[2])>>
       ELSE IF m2 # NoMatch THEN <<Strip(m2[1]), Strip(m2[2])>>
       ELSE IF m3 # NoMatch THEN <<Strip(m3[2]), Strip(m3[1])>>
       ELSE IF m4 # NoMatch THEN <<Strip(m4[1]), Strip(m4[2])>>
       ELSE IF m5 # NoMatch THEN <<Strip(m5[1]), Strip(m5[2])>>
       ELSE <<<<>>, t>>

\* The place in self.patterns of the pattern parse_title returns from, 0 when
\* it returns from the fallback.
MatchedPattern(title) ==
    LET t == clean_text(title)
    IN IF MatchSep(t, "-") # NoMatch THEN 1
       ELSE IF MatchSep(t, ":") # NoMatch THEN 2
       ELSE IF MatchBy(t) # NoMatch THEN 3
       ELSE IF MatchSep(t, "|") # NoMatch THEN 4
       ELSE IF MatchQuote(t) # NoMatch THEN 5
       ELSE 0

(***************************************************************************)
(* YouTubeExtractor                                                        *)
(***************************************************************************)

\* Python's None where a string is expected: no string, since a string is a
\* sequence of one-character strings.
None == <<"None">>

Digits == {"0", "1", "2", "3", "4", "5", "6", "7", "8", "9"}

\* The character class [a-zA-Z0-9_-].
IsIdChar(c) ==
    \/ \E i \in 1..Len(LowerCase) : c = LowerCase[i] \/ c = UpperCase[i]
    \/ c \in Digits \cup {"_", "-"}

\* Length of the run of [a-zA-Z0-9_-] characters of s starting at position p.
RECURSIVE IdRun(_, _)
IdRun(s, p) == IF p <= Len(s) /\ IsIdChar(s[p]) THEN 1 + IdRun(s, p + 1) ELSE 0

\* re.search(prefix + '([a-zA-Z0-9_-]+)', url).group(1), or None.
SearchId(url, prefix) ==
    LET At(p) == StartsWith(Drop(url, p), prefix) /\ IdRun(url, p + Len(prefix)) >= 1
    IN IF \E p \in 1..Len(url) : At(p)
       THEN LET p == CHOOSE k \in 1..Len(url) : At(k) /\ \A m \in 1..(k - 1) : ~At(m)
                b == p + Len(prefix)
            IN SubSeq(url, b, b + IdRun(url, b) - 1)
       ELSE None

ListEq == <<"l", "i", "s", "t", "=">>
PlaylistListEq == <<"p", "l", "a", "y", "l", "i", "s", "t", "?">> \o ListEq

extract_playlist_id(url) ==
    IF SearchId(url, ListEq) # None THEN SearchId(url, ListEq)
    ELSE SearchId(url, PlaylistListEq)

TopicSuffix == <<" ", "-", " ", "T", "o", "p", "i", "c">>

\* item['snippet'].get('videoOwnerChannelTitle', '').replace(' - Topic', '')
StripTopic(channel) == RemoveAll(channel, TopicSuffix)

DeletedVideo == <<"D", "e", "l", "e", "t", "e", "d", " ", "v", "i", "d", "e", "o">>
PrivateVideo == <<"P", "r", "i", "v", "a", "t", "e", " ", "v", "i", "d", "e", "o">>

\* The videos one page of playlistItems adds: deleted and private entries are
\* dropped, the others keep their title and get the channel without ' - Topic'.
RECURSIVE PageVideos(_)
PageVideos(items) ==
    IF items = <<>> THEN <<>>
    ELSE LET item == Head(items)
         IN (IF item.title # DeletedVideo /\ item.title # PrivateVideo
             THEN <<[title |-> item.title, channel |-> StripTopic(item.channel)]>>
             ELSE <<>>) \o PageVideos(Tail(items))

(***************************************************************************)
(* PlaylistMigrator._clean_channel_name                                    *)
(***************************************************************************)

suffixes_to_remove ==
    << <<"O", "f", "f", "i", "c", "i", "a", "l">>,
       <<"O", "F", "F", "I", "C", "I", "A", "L">>,
       <<"R", "e", "c", "o", "r", "d", "s">>,
       <<"R", "E", "C", "O", "R", "D", "S">>,
       <<"M", "u", "s", "i", "c">>,
       <<"M", "U", "S", "I", "C">>,
       <<"C", "h", "a", "n", "n", "e", "l">>,
       <<"C", "H", "A", "N", "N", "E", "L">>,
       <<"T", "V">>,
       <<"V", "E", "V", "O">>,
       <<"v", "e", "v", "o">> >>

\* StripSuffix that removes a suffix only as the last word.
StripSuffixWordOnly(cleaned, suffix) ==
    IF EndsWith(cleaned, <<" ">> \o suffix)
    THEN SubSeq(cleaned, 1, Len(cleaned) - Len(suffix) - 1)
    ELSE cleaned

\* One iteration of the suffix loop.
StripSuffix(cleaned, suffix) ==
    IF EndsWith(cleaned, <<" ">> \o suffix)
    THEN SubSeq(cleaned, 1, Len(cleaned) - Len(suffix) - 1)
    ELSE IF EndsWith(cleaned, suffix)
    THEN SubSeq(cleaned, 1, Len(cleaned) - Len(suffix))
    ELSE cleaned

\* The loop over suffixes_to_remove from the k-th suffix on.
RECURSIVE StripSuffixes(_, _)
StripSuffixes(cleaned, k) ==
    IF k > Len(suffixes_to_remove) THEN cleaned
    ELSE StripSuffixes(StripSuffix(cleaned, suffixes_to_remove[k]), k + 1)

clean_channel_name(channel) ==
    IF channel = <<>> THEN <<>> ELSE Strip(StripSuffixes(channel, 1))

(***************************************************************************)
(* FuzzyMatcher                                                            *)
(***************************************************************************)

Max(a, b) == IF a >= b THEN a ELSE b

\* Length of the longest common subsequence of a and b.
RECURSIVE LCSLen(_, _)
LCSLen(a, b) ==
    IF a = <<>> \/ b = <<>> THEN 0
    ELSE IF Head(a) = Head(b) THEN 1 + LCSLen(Tail(a), Tail(b))
    ELSE Max(LCSLen(Tail(a), b), LCSLen(a, Tail(b)))

\* Python's round() of the fraction n/d: to the nearest integer, halves to even.
RoundHalfEven(n, d) ==
    LET q == n \div d
        r == n % d
    IN IF 2 * r < d THEN q
       ELSE IF 2 * r > d THEN q + 1
       ELSE IF q % 2 = 0 THEN q ELSE q + 1

\* fuzz.ratio(s1, s2) of the fuzzywuzzy library: 100 for equal strings, 0 when
\* one is empty, else int(round(100 * 2*M / T)) with M the matched characters
\* and T the total length.  M is the longest common subsequence; the difflib
\* and Levenshtein back ends of the library agree with it on the strings the
\* model draws (they first differ at a total length of 6).
ratio(s1, s2) ==
    IF s1 = s2 THEN 100
    ELSE IF s1 = <<>> \/ s2 = <<>> THEN 0
    ELSE RoundHalfEven(200 * LCSLen(s1, s2), Len(s1) + Len(s2))

\* The weights of the title and artist scores, in tenths.
TitleWeight == 7
ArtistWeight == 3

\* The <<title_score, artist_score>> pairs whose exact confidence is 0.5 and
\* whose floating-point confidence is 0.49999999999999994.
HalfRoundedDown == {<<53, 43>>, <<56, 36>>, <<68, 8>>, <<71, 1>>}

\* calculate_match_confidence comparing the strings as they are written.
calculate_match_confidence_CaseSensitive(original_artist, original_title, spotify_artist, spotify_title) ==
    IF original_artist = <<>> \/ original_title = <<>> THEN 0
    ELSE ratio(original_title, spotify_title) * TitleWeight
             + ratio(original_artist, spotify_artist) * ArtistWeight

\* calculate_match_confidence, in thousandths (1.0 is 1000).
calculate_match_confidence(original_artist, original_title, spotify_artist, spotify_title) ==
    IF original_artist = <<>> \/ original_title = <<>> THEN 0
    ELSE LET artist_score == ratio(Lower(original_artist), Lower(spotify_artist))
             title_score == ratio(Lower(original_title), Lower(spotify_title))
             exact == title_score * TitleWeight + artist_score * ArtistWeight
         IN IF <<title_score, artist_score>> \in HalfRoundedDown
            THEN exact - 1 ELSE exact

\* The default threshold of is_good_match, 0.5, in thousandths.
DefaultThreshold == 500

is_good_match(confidence) == confidence >= DefaultThreshold

(***************************************************************************)
(* The inputs of a run                                                     *)
(***************************************************************************)

\* Bound of the model: the entries one playlist lists.
MaxVideos == 2

\* Playlist URLs: one with a playlist id, one whose "list=" has no id, one
\* with no "list=" at all.
Urls == { <<"l", "i", "s", "t", "=", "P", "L", "1">>,
          <<"l", "i", "s", "t", "=">>,
          <<"w", "a", "t", "c", "h">> }

\* The playlistItems entries the source catalog may list (title and
\* videoOwnerChannelTitle):
\*   "a-b" by channel "a"          artist and title parsed, channel = artist
\*   "A-b" by channel "c - Topic"  artist and title parsed, another channel
\*   "b" by channel "a TV"         no artist parsed, channel supplies one
\*   "b" by no channel             no artist at all
\*   "(x)" by channel "a"          nothing left of the label after cleaning
\*   "Deleted video"               dropped by get_playlist_videos
RawItems ==
    { [title |-> <<"a", "-", "b">>, channel |-> <<"a">>],
      [title |-> <<"A", "-", "b">>, channel |-> <<"c">> \o TopicSuffix],
      [title |-> <<"b">>, channel |-> <<"a", " ", "T", "V">>],
      [title |-> <<"b">>, channel |-> <<>>],
      [title |-> <<"(", "x", ")">>, channel |-> <<"a">>],
      [title |-> DeletedVideo, channel |-> <<"a">>] }

\* The sequences over S of length at most n.
SeqUpTo(S, n) == UNION {[1..k -> S] : k \in 0..n}

\* The tracks a Spotify search may return as tracks[0]: the exact track, a
\* track with the same title by another artist, an unrelated track, and a
\* track that lists no artist.
Catalog ==
    { [artists |-> << <<"a">> >>, name |-> <<"b">>, uri |-> "spotify:track:1"],
      [artists |-> << <<"c">> >>, name |-> <<"b">>, uri |-> "spotify:track:2"],
      [artists |-> << <<"c">> >>, name |-> <<"d">>, uri |-> "spotify:track:3"],
      [artists |-> <<>>, name |-> <<"b">>, uri |-> "spotify:track:4"] }

\* Python's None where a track dict is expected.
NoTrack == [artists |-> <<>>, name |-> <<>>, uri |-> "None"]

\* str(e) of the exceptions a search may raise: KeyError('items') of
\* _search_with_query, and an exception built without a message.
SearchErrors == {"'items'", ""}

\* What one call of SpotifyManager.search_track does, as seen by its caller.
SearchOutcomes ==
    [kind : {"track"}, track : Catalog, message : {""}]
        \cup [kind : {"none"}, track : {NoTrack}, message : {""}]
        \cup [kind : {"raise"}, track : {NoTrack}, message : SearchErrors]

(***************************************************************************)
(* Song and MigrationStats                                                 *)
(***************************************************************************)

\* Song(original_title=title, channel_name=channel) with the dataclass defaults.
\* match_confidence is in thousandths.
NewSong(title, channel) ==
    [original_title |-> title, channel_name |-> channel, artist |-> <<>>,
     title |-> <<>>, spotify_uri |-> "", match_confidence |-> 0, error |-> "",
     found |-> FALSE]

\* MigrationStats(start_time=datetime.now()).
NewStats ==
    [total_songs |-> 0, successful_matches |-> 0, not_found |-> 0, errors |-> 0,
     start_time |-> "now", end_time |-> "None"]

(***************************************************************************)
(* The pieces of _process_song and migrate_playlist                        *)
(***************************************************************************)

\* WorkingArtist as a pipeline that never consults the channel.
WorkingArtistParsedOnly(parsed_artist, channel) == parsed_artist

\* The artist _process_song searches and scores with: the cleaned channel
\* name when no artist was parsed and there is a channel, else the parsed one.
WorkingArtist(parsed_artist, channel) ==
    IF parsed_artist = <<>> /\ channel # <<>>
    THEN clean_channel_name(channel)
    ELSE parsed_artist

\* The guards of the three strategies of _enhanced_spotify_search.
Strategy1Applies(art, title) == art # <<>> /\ title # <<>>

\* Strategy2Applies without the comparison of the channel with the artist.
Strategy2AppliesAnyChannel(art, title, channel) ==
    /\ channel # <<>>
    /\ title # <<>>
    /\ clean_channel_name(channel) # <<>>

\* Strategy 2 runs for a channel that differs from the artist and does not
\* clean to the empty string.
Strategy2Applies(art, title, channel) ==
    /\ channel # <<>>
    /\ channel # art
    /\ title # <<>>
    /\ clean_channel_name(channel) # <<>>

Strategy3Applies(title) == title # <<>>

\* The branch of _process_song taken with a track: spotify_track['artists'][0]
\* raises IndexError on a track without artists, before the song is touched.
ScoreTrack(sg, art, title, track) ==
    IF track.artists = <<>>
    THEN [sg EXCEPT !.error = "list index out of range"]
    ELSE LET confidence == calculate_match_confidence(
                               art, title, track.artists[1], track.name)
             found == is_good_match(confidence)
         IN [sg EXCEPT !.match_confidence = confidence,
                       !.spotify_uri = track.uri,
                       !.found = found,
                       !.error = IF found THEN "" ELSE "Low confidence match"]

\* "Update statistics" of migrate_playlist.
UpdateStats(st, sg) ==
    IF sg.found
    THEN [st EXCEPT !.successful_matches = st.successful_matches + 1]
    ELSE IF sg.error # ""
    THEN [st EXCEPT !.errors = st.errors + 1]
    ELSE [st EXCEPT !.not_found = st.not_found + 1]

\* NoPlaylistId that accepts every URL.
NoPlaylistIdNever(id) == FALSE

\* if not playlist_id: extract_playlist_id found no id (None; a matched id
\* has at least one character).
NoPlaylistId(id) == id = None

\* MoreItems with the last video left out.
MoreItemsButLast(idx, vids) == idx < Len(vids)

\* for i, video_data in enumerate(video_titles, 1): there is an i-th video.
MoreItems(idx, vids) == idx <= Len(vids)

\* SuccessfulTracks selecting every song that has a URI, accepted or not.
RECURSIVE SuccessfulTracksAnyUri(_)
SuccessfulTracksAnyUri(sgs) ==
    IF sgs = <<>> THEN <<>>
    ELSE (IF Head(sgs).spotify_uri # "" THEN <<Head(sgs).spotify_uri>> ELSE <<>>)
             \o SuccessfulTracksAnyUri(Tail(sgs))

\* [song.spotify_uri for song in songs if song.found]
RECURSIVE SuccessfulTracks(_)
SuccessfulTracks(sgs) ==
    IF sgs = <<>> THEN <<>>
    ELSE (IF Head(sgs).found THEN <<Head(sgs).spotify_uri>> ELSE <<>>)
             \o SuccessfulTracks(Tail(sgs))

\* Finalize that leaves end_time unset.
FinalizeNothing(st) == st

\* finally: stats.end_time = datetime.now()
Finalize(st) == [st EXCEPT !.end_time = "now"]

\* Spotify's cap on the tracks of one request.
batch_size == 100

\* The batches add_tracks_to_playlist sends: track_uris[i:i + batch_size].
Batches(track_uris) ==
    [b \in 1..((Len(track_uris) + batch_size - 1) \div batch_size) |->
        SubSeq(track_uris, (b - 1) * batch_size + 1,
               IF b * batch_size <= Len(track_uris)
               THEN b * batch_size ELSE Len(track_uris))]

\* The concatenation of the first k batches.
RECURSIVE Written(_, _)
Written(batches, k) ==
    IF k = 0 THEN <<>> ELSE Written(batches, k - 1) \o batches[k]

\* The rows generate_csv_report writes, one per song.
ReportRows(sgs) ==
    [k \in 1..Len(sgs) |->
        [title |-> sgs[k].original_title, channel |-> sgs[k].channel_name,
         artist |-> sgs[k].artist, song |-> sgs[k].title,
         found |-> IF sgs[k].found THEN "Y" ELSE "N",
         uri |-> sgs[k].spotify_uri, confidence |-> sgs[k].match_confidence,
         error |-> sgs[k].error]]

(***************************************************************************)
(* The run: main calling migrate_playlist                                  *)
(***************************************************************************)

VARIABLES
    pc,                \* where the run stands
    youtube_url,       \* the URL the user entered
    playlist_id,       \* extract_playlist_id's result
    videos,            \* get_playlist_videos: the videos collected so far
    next_page_token,   \* get_playlist_videos: "None" or the token of the next page
    video_titles,      \* migrate_playlist: the extracted videos
    stats,             \* migrate_playlist: the MigrationStats
    songs,             \* migrate_playlist: the processed songs
    i,                 \* migrate_playlist: the number of the video in the loop
    song,              \* _process_song: the song being built
    artist,            \* _process_song: the working artist
    song_title,        \* _process_song: the parsed title
    spotify_track,     \* _process_song: the search result
    queries,           \* the search_track calls made for the current video
    scorings,          \* the calculate_match_confidence calls for the current video
    successful_tracks, \* migrate_playlist: the URIs to commit
    spotify_calls,     \* the create_playlist and add_tracks_to_playlist calls
    playlist,          \* the tracks written to the created Spotify playlist
    ret,               \* main: <<songs, stats>> once migrate_playlist returned
    report             \* main: the rows of the CSV report

\* The functions that are also called on their own, outside of a run.
VARIABLES
    cleaner,           \* _clean_channel_name, called on a channel and on its result
    parser,            \* TitleParser.parse_title, called on a label
    search,            \* SpotifyManager.search_track, with its requests
    adder              \* SpotifyManager.add_tracks_to_playlist, with its requests

vars == <<pc, youtube_url, playlist_id, videos, next_page_token, video_titles, stats, songs, i, song, artist, song_title, spotify_track,
          queries, scorings, successful_tracks, spotify_calls, playlist, ret,
          report, cleaner, parser, search, adder>>

\* The variables of a run, and the variables of the calls outside of a run.
run == <<pc, youtube_url, playlist_id, videos, next_page_token, video_titles, stats, songs, i, song, artist, song_title, spotify_track,
         queries, scorings, successful_tracks, spotify_calls, playlist, ret,
         report>>
units == <<cleaner, parser, search, adder>>

\* A function that is not called on its own.
NotCalled == [pc |-> "not called"]

extraction == <<videos, next_page_token>>
item == <<song, artist, song_title, spotify_track, queries, scorings>>
commit == <<successful_tracks, spotify_calls, playlist>>
caller == <<ret, report>>

\* The state when migrate_playlist has built stats and songs.
Init ==
    /\ pc = "extract_id"
    /\ youtube_url \in Urls
    /\ playlist_id = None
    /\ videos = <<>>
    /\ next_page_token = "None"
    /\ video_titles = <<>>
    /\ stats = NewStats
    /\ songs = <<>>
    /\ i = 1
    /\ song = NewSong(<<>>, <<>>)
    /\ artist = <<>>
    /\ song_title = <<>>
    /\ spotify_track = NoTrack
    /\ queries = <<>>
    /\ scorings = 0
    /\ successful_tracks = <<>>
    /\ spotify_calls = <<>>
    /\ playlist = <<>>
    /\ ret = <<>>
    /\ report = <<>>
    /\ cleaner = NotCalled
    /\ parser = NotCalled
    /\ search = NotCalled
    /\ adder = NotCalled

\* playlist_id = extract_playlist_id(youtube_url); ValueError without an id.
ExtractId ==
    /\ pc = "extract_id"
    /\ playlist_id' = extract_playlist_id(youtube_url)
    /\ pc' = IF NoPlaylistId(playlist_id') THEN "except" ELSE "fetch"
    /\ UNCHANGED <<units, youtube_url, extraction, video_titles, stats, songs, i, item,
                   commit, caller>>

\* One iteration of the while loop of get_playlist_videos: the request fails
\* (the loop breaks), or a page arrives, with or without a nextPageToken.
FetchPage ==
    /\ pc = "fetch"
    /\ \/ /\ pc' = "fetched"
          /\ UNCHANGED <<videos, next_page_token>>
       \/ \E items \in SeqUpTo(RawItems, MaxVideos - Len(videos)),
             token \in {"None", "next"} :
            /\ videos' = videos \o PageVideos(items)
            /\ next_page_token' = token
            /\ pc' = IF token = "None" THEN "fetched" ELSE "fetch"
    /\ UNCHANGED <<units, youtube_url, playlist_id, video_titles, stats, songs, i, item,
                   commit, caller>>

\* get_playlist_videos returns (its locals are gone); total_songs is set;
\* ValueError without videos.
Extracted ==
    /\ pc = "fetched"
    /\ video_titles' = videos
    /\ videos' = <<>>
    /\ next_page_token' = "None"
    /\ stats' = [stats EXCEPT !.total_songs = Len(videos)]
    /\ pc' = IF videos = <<>> THEN "except" ELSE "loop"
    /\ UNCHANGED <<units, youtube_url, playlist_id, songs, i, item, commit, caller>>

\* _process_song up to the search: the song is built, its title parsed and
\* its working artist chosen.
ProcessBegin ==
    /\ pc = "loop"
    /\ MoreItems(i, video_titles)
    /\ LET title == video_titles[i].title
           channel == video_titles[i].channel
           parsed == parse_title(title)
       IN /\ artist' = WorkingArtist(parsed[1], channel)
          /\ song_title' = parsed[2]
          /\ song' = [NewSong(title, channel) EXCEPT !.artist = artist',
                                                      !.title = parsed[2]]
    /\ spotify_track' = NoTrack
    /\ queries' = <<>>
    /\ scorings' = 0
    /\ pc' = "strategy1"
    /\ UNCHANGED <<units, youtube_url, playlist_id, extraction, video_titles, stats,
                   songs, i, commit, caller>>

\* One call self.spotify.search_track(art, title) of _enhanced_spotify_search:
\* a track is returned to _process_song, None leads to the next strategy, an
\* exception is caught by _process_song, which records its message.
SearchTrack(art, title, next) ==
    \E o \in SearchOutcomes :
        /\ queries' = Append(queries, [artist |-> art, title |-> title,
                                       result |-> o.kind])
        /\ spotify_track' = o.track
        /\ song' = IF o.kind = "raise" THEN [song EXCEPT !.error = o.message]
                   ELSE song
        /\ pc' = CASE o.kind = "track" -> "score"
                   [] o.kind = "none" -> next
                   [] o.kind = "raise" -> "processed"

\* Strategy 1: the working artist and the title.
Strategy1 ==
    /\ pc = "strategy1"
    /\ IF Strategy1Applies(artist, song_title)
       THEN SearchTrack(artist, song_title, "strategy2")
       ELSE pc' = "strategy2" /\ UNCHANGED <<song, spotify_track, queries>>
    /\ UNCHANGED <<units, youtube_url, playlist_id, extraction, video_titles, stats,
                   songs, i, artist, song_title, scorings, commit, caller>>

\* Strategy 2: the cleaned channel name and the title.
Strategy2 ==
    /\ pc = "strategy2"
    /\ IF Strategy2Applies(artist, song_title, song.channel_name)
       THEN SearchTrack(clean_channel_name(song.channel_name), song_title,
                        "strategy3")
       ELSE pc' = "strategy3" /\ UNCHANGED <<song, spotify_track, queries>>
    /\ UNCHANGED <<units, youtube_url, playlist_id, extraction, video_titles, stats,
                   songs, i, artist, song_title, scorings, commit, caller>>

\* Strategy 3: the title alone; after it _enhanced_spotify_search returns None.
Strategy3 ==
    /\ pc = "strategy3"
    /\ IF Strategy3Applies(song_title)
       THEN SearchTrack(<<>>, song_title, "score")
       ELSE pc' = "score" /\ UNCHANGED <<song, spotify_track, queries>>
    /\ UNCHANGED <<units, youtube_url, playlist_id, extraction, video_titles, stats,
                   songs, i, artist, song_title, scorings, commit, caller>>

\* if spotify_track: ... else: ... of _process_song, with its except clause.
Score ==
    /\ pc = "score"
    /\ IF spotify_track # NoTrack
       THEN /\ song' = ScoreTrack(song, artist, song_title, spotify_track)
            /\ scorings' = IF spotify_track.artists = <<>> THEN scorings
                           ELSE scorings + 1
       ELSE /\ song' = [song EXCEPT !.error = "No matches found on Spotify"]
            /\ UNCHANGED scorings
    /\ pc' = "processed"
    /\ UNCHANGED <<units, youtube_url, playlist_id, extraction, video_titles, stats,
                   songs, i, artist, song_title, spotify_track, queries, commit,
                   caller>>

\* The locals of _process_song, gone when it returns or is unwound.
ItemLocalsDropped ==
    /\ artist' = <<>>
    /\ song_title' = <<>>
    /\ spotify_track' = NoTrack
    /\ queries' = <<>>
    /\ scorings' = 0

\* _process_song returns; songs.append(song) and the statistics update.
Record ==
    /\ pc = "processed"
    /\ songs' = Append(songs, song)
    /\ stats' = UpdateStats(stats, song)
    /\ i' = i + 1
    /\ ItemLocalsDropped
    /\ pc' = "loop"
    /\ UNCHANGED <<units, youtube_url, playlist_id, extraction, video_titles, song,
                   commit, caller>>

\* The loop is over: successful_tracks is built; without tracks nothing is
\* created.
BuildCommit ==
    /\ pc = "loop"
    /\ ~MoreItems(i, video_titles)
    /\ successful_tracks' = SuccessfulTracks(songs)
    /\ pc' = IF successful_tracks' # <<>> THEN "create" ELSE "finally"
    /\ UNCHANGED <<units, youtube_url, playlist_id, extraction, video_titles, stats,
                   songs, i, item, spotify_calls, playlist, caller>>

\* self.spotify.create_playlist(...): a playlist id, or None.
CreatePlaylist ==
    /\ pc = "create"
    /\ spotify_calls' = Append(spotify_calls,
                               [op |-> "create_playlist", uris |-> <<>>])
    /\ \E created \in BOOLEAN :
           /\ playlist_id' = IF created THEN <<"s", "p", "1">> ELSE None
           /\ pc' = IF created THEN "add" ELSE "finally"
    /\ UNCHANGED <<units, youtube_url, extraction, video_titles, stats, songs, i, item,
                   successful_tracks, playlist, caller>>

\* self.spotify.add_tracks_to_playlist(playlist_id, successful_tracks): the
\* batches are sent in order up to the first request that fails.
AddTracks ==
    /\ pc = "add"
    /\ spotify_calls' = Append(spotify_calls,
                               [op |-> "add_tracks_to_playlist",
                                uris |-> successful_tracks])
    /\ \E sent \in 0..Len(Batches(successful_tracks)) :
           playlist' = Written(Batches(successful_tracks), sent)
    /\ pc' = "finally"
    /\ UNCHANGED <<units, youtube_url, playlist_id, extraction, video_titles, stats,
                   songs, i, item, successful_tracks, caller>>

\* except Exception as e: the ValueError is logged and printed.
Except ==
    /\ pc = "except"
    /\ pc' = "finally"
    /\ UNCHANGED <<units, youtube_url, playlist_id, extraction, video_titles, stats,
                   songs, i, item, commit, caller>>

\* finally: end_time is set; return songs, stats to main.
Finally ==
    /\ pc = "finally"
    /\ stats' = Finalize(stats)
    /\ ret' = <<songs, stats'>>
    /\ pc' = "returned"
    /\ UNCHANGED <<units, youtube_url, playlist_id, extraction, video_titles, songs, i,
                   item, commit, report>>

\* main: generate_csv_report(songs, stats) and print_summary(stats).
Report ==
    /\ pc = "returned"
    /\ report' = ReportRows(ret[1])
    /\ pc' = "done"
    /\ UNCHANGED <<units, youtube_url, playlist_id, extraction, video_titles, stats,
                   songs, i, item, commit, ret>>

\* The places of migrate_playlist's try block.
InTry == {"extract_id", "fetch", "fetched", "loop", "strategy1", "strategy2",
          "strategy3", "score", "processed", "create", "add", "except"}

\* KeyboardInterrupt inside the try block: it is no Exception, so the except
\* clause is skipped, the finally clause sets end_time and the interrupt
\* leaves migrate_playlist without a return (a song in the making is lost
\* with the frame of _process_song); main's except KeyboardInterrupt prints
\* that the migration was cancelled.
Interrupt ==
    /\ pc \in InTry
    /\ stats' = Finalize(stats)
    /\ song' = IF songs = <<>> THEN NewSong(<<>>, <<>>) ELSE songs[Len(songs)]
    /\ ItemLocalsDropped
    /\ videos' = <<>>
    /\ next_page_token' = "None"
    /\ pc' = "cancelled"
    /\ UNCHANGED <<units, youtube_url, playlist_id, video_titles, songs, i, commit,
                   caller>>

Next ==
    \/ ExtractId
    \/ FetchPage
    \/ Extracted
    \/ ProcessBegin
    \/ Strategy1
    \/ Strategy2
    \/ Strategy3
    \/ Score
    \/ Record
    \/ BuildCommit
    \/ CreatePlaylist
    \/ AddTracks
    \/ Except
    \/ Finally
    \/ Report
    \/ Interrupt

Spec == Init /\ [][Next]_vars

\* No run is under way: the variables of the run rest.
NoRun ==
    /\ pc = "no run"
    /\ youtube_url = <<>>
    /\ playlist_id = None
    /\ videos = <<>>
    /\ next_page_token = "None"
    /\ video_titles = <<>>
    /\ stats = NewStats
    /\ songs = <<>>
    /\ i = 1
    /\ song = NewSong(<<>>, <<>>)
    /\ artist = <<>>
    /\ song_title = <<>>
    /\ spotify_track = NoTrack
    /\ queries = <<>>
    /\ scorings = 0
    /\ successful_tracks = <<>>
    /\ spotify_calls = <<>>
    /\ playlist = <<>>
    /\ ret = <<>>
    /\ report = <<>>

(***************************************************************************)
(* _clean_channel_name called on its own                                   *)
(***************************************************************************)

\* Bound of the model: the removable tokens a channel name ends with.
MaxTokens == 2

\* What precedes the tokens: nothing, a name in small letters, one in capitals.
ChannelNames == {<<>>, <<"x">>, <<"A">>}

\* A removable token as a word of its own, or glued to what precedes it.
Tokens ==
    {sep \o suffixes_to_remove[k] :
        sep \in {<<>>, <<" ">>}, k \in 1..Len(suffixes_to_remove)}

\* The concatenation of a sequence of strings.
RECURSIVE Flatten(_)
Flatten(parts) ==
    IF parts = <<>> THEN <<>> ELSE Head(parts) \o Flatten(Tail(parts))

\* The channel names: a name, up to MaxTokens tokens, and maybe a blank.
Channels ==
    {name \o Flatten(toks) \o trail :
        name \in ChannelNames, toks \in SeqUpTo(Tokens, MaxTokens),
        trail \in {<<>>, <<" ">>}}

InitClean ==
    /\ NoRun
    /\ cleaner \in [pc : {"call"}, channel : Channels, once : {<<>>},
                    twice : {<<>>}]
    /\ parser = NotCalled
    /\ search = NotCalled
    /\ adder = NotCalled

\* once = self._clean_channel_name(channel)
CleanChannel ==
    /\ cleaner.pc = "call"
    /\ cleaner' = [cleaner EXCEPT !.pc = "once",
                                  !.once = clean_channel_name(cleaner.channel)]
    /\ UNCHANGED <<run, parser, search, adder>>

\* twice = self._clean_channel_name(once)
CleanAgain ==
    /\ cleaner.pc = "once"
    /\ cleaner' = [cleaner EXCEPT !.pc = "twice",
                                  !.twice = clean_channel_name(cleaner.once)]
    /\ UNCHANGED <<run, parser, search, adder>>

NextClean ==
    \/ CleanChannel
    \/ CleanAgain

SpecClean == InitClean /\ [][NextClean]_vars

(***************************************************************************)
(* TitleParser.parse_title called on its own                               *)
(***************************************************************************)

\* Bound of the model: the length of a label.
MaxLabel == 4

\* The characters of a label: a letter, a blank, a separator, a quote and
\* the brackets of a decoration.
LabelChars == {"a", " ", "-", "\"", "[", "]"}

Labels == SeqUpTo(LabelChars, MaxLabel)

InitParse ==
    /\ NoRun
    /\ parser \in [pc : {"call"}, label : Labels, pattern : {0},
                   artist : {<<>>}, title : {<<>>}]
    /\ cleaner = NotCalled
    /\ search = NotCalled
    /\ adder = NotCalled

\* artist, title = self.title_parser.parse_title(label)
ParseTitle ==
    /\ parser.pc = "call"
    /\ LET parsed == parse_title(parser.label)
       IN parser' = [parser EXCEPT !.pc = "parsed",
                                   !.pattern = MatchedPattern(parser.label),
                                   !.artist = parsed[1],
                                   !.title = parsed[2]]
    /\ UNCHANGED <<run, cleaner, search, adder>>

NextParse == ParseTitle

SpecParse == InitParse /\ [][NextParse]_vars

(***************************************************************************)
(* SpotifyManager.search_track called on its own, with _search_with_query  *)
(* and _make_request                                                       *)
(***************************************************************************)

\* for attempt in range(3)
Attempts == 3

\* MoreAttempts with one more turn of the loop.
MoreAttemptsOneMore(attempt) == attempt <= Attempts

\* The loop of _make_request has another attempt to make.
MoreAttempts(attempt) == attempt < Attempts

\* What one HTTP request of _make_request may meet:
\*   "429"        a response with status 429 (Retry-After in seconds, as
\*                Spotify sends it)
\*   "error"      a requests.exceptions.RequestException: no connection, a
\*                timeout, an error status raised by raise_for_status, a body
\*                that is no JSON
\*   "tracks"     a body whose tracks.items lists at least one track
\*   "no items"   a body whose tracks.items is empty
\*   "no tracks"  a body without 'tracks', or no body at all ({})
\*   "malformed"  a body whose 'tracks' has no 'items'
Failures == {"429", "error"}
Responses == Failures \cup {"tracks", "no items", "no tracks", "malformed"}

\* The guards of the three query formulations of search_track.
QueryApplies(strategy, art, title) ==
    IF strategy = 3 THEN title # <<>> ELSE art # <<>> /\ title # <<>>

InitSearch ==
    /\ NoRun
    /\ search \in [pc : {"strategy"}, artist : {<<>>, <<"a">>},
                   title : {<<>>, <<"b">>}, strategy : {1}, attempt : {0},
                   sent : {<<>>}, made : {<<>>}, result : {NoTrack},
                   error : {""}]
    /\ cleaner = NotCalled
    /\ parser = NotCalled
    /\ adder = NotCalled

\* search_track reaches a query formulation: _search_with_query calls
\* _make_request when its guard holds, else the next formulation is next.
SearchStrategy ==
    /\ search.pc = "strategy"
    /\ search.strategy <= 3
    /\ search' = IF QueryApplies(search.strategy, search.artist, search.title)
                 THEN [search EXCEPT !.pc = "request", !.attempt = 0,
                                     !.sent = <<>>]
                 ELSE [search EXCEPT !.strategy = search.strategy + 1]
    /\ UNCHANGED <<run, cleaner, parser, adder>>

\* _make_request returns data (None as "None") after the requests answered
\* by responses: _search_with_query returns None, tracks[0] or raises
\* KeyError, and search_track returns the track or goes on.
MakeRequestReturns(data, responses, track) ==
    LET call == [responses |-> responses, data |-> data]
        back == [search EXCEPT !.made = Append(search.made, call),
                               !.attempt = 0, !.sent = <<>>]
    IN search' =
           IF data = "tracks"
           THEN [back EXCEPT !.pc = "returned", !.result = track]
           ELSE IF data = "malformed"
           THEN [back EXCEPT !.pc = "raised", !.error = "'items'"]
           ELSE [back EXCEPT !.pc = "strategy",
                             !.strategy = search.strategy + 1]

\* One turn of the loop of _make_request: the request is sent; a 429 sleeps
\* and continues, an exception sleeps and continues unless the attempt is
\* the last, a body is returned.
Attempt ==
    /\ search.pc = "request"
    /\ MoreAttempts(search.attempt)
    /\ \E response \in Responses, track \in Catalog :
           LET sent == Append(search.sent, response)
           IN IF response = "429" \/ (response = "error" /\ search.attempt # 2)
              THEN search' = [search EXCEPT !.attempt = search.attempt + 1,
                                            !.sent = sent]
              ELSE IF response = "error"
              THEN MakeRequestReturns("None", sent, NoTrack)
              ELSE MakeRequestReturns(response, sent,
                       IF response = "tracks" THEN track ELSE NoTrack)
    /\ UNCHANGED <<run, cleaner, parser, adder>>

\* The loop of _make_request is over: return None.
Exhausted ==
    /\ search.pc = "request"
    /\ ~MoreAttempts(search.attempt)
    /\ MakeRequestReturns("None", search.sent, NoTrack)
    /\ UNCHANGED <<run, cleaner, parser, adder>>

\* No formulation of search_track gave a track: return None.
SearchReturnsNone ==
    /\ search.pc = "strategy"
    /\ search.strategy > 3
    /\ search' = [search EXCEPT !.pc = "returned", !.result = NoTrack]
    /\ UNCHANGED <<run, cleaner, parser, adder>>

NextSearch ==
    \/ SearchStrategy
    \/ Attempt
    \/ Exhausted
    \/ SearchReturnsNone

SpecSearch == InitSearch /\ [][NextSearch]_vars

(***************************************************************************)
(* SpotifyManager.add_tracks_to_playlist called on its own                 *)
(***************************************************************************)

\* Bound of the model: the tracks to add.
MaxTracks == 201

\* The track lists: the URIs 1, ..., n.
TrackLists == {[k \in 1..n |-> k] : n \in 0..MaxTracks}

\* Slice with an end that is one too far.
SliceOneMore(track_uris, offset) ==
    SubSeq(track_uris, offset + 1,
           IF offset + batch_size + 1 <= Len(track_uris)
           THEN offset + batch_size + 1 ELSE Len(track_uris))

\* track_uris[offset:offset + batch_size]
Slice(track_uris, offset) ==
    SubSeq(track_uris, offset + 1,
           IF offset + batch_size <= Len(track_uris)
           THEN offset + batch_size ELSE Len(track_uris))

InitAdd ==
    /\ NoRun
    /\ adder \in [pc : {"loop"}, track_uris : TrackLists, i : {0},
                  sent : {<<>>}, written : {<<>>}, result : {FALSE}]
    /\ cleaner = NotCalled
    /\ parser = NotCalled
    /\ search = NotCalled

\* One turn of the loop of add_tracks_to_playlist: the batch is posted;
\* _make_request returns the body Spotify answers with (a snapshot id), and
\* the tracks are in the playlist, or it returns None and the function
\* returns False.
SendBatch ==
    /\ adder.pc = "loop"
    /\ adder.i < Len(adder.track_uris)
    /\ \E ok \in BOOLEAN :
           LET batch == Slice(adder.track_uris, adder.i)
               sent == Append(adder.sent, [uris |-> batch, ok |-> ok])
           IN adder' =
                  IF ok
                  THEN [adder EXCEPT !.sent = sent,
                                     !.written = adder.written \o batch,
                                     !.i = adder.i + batch_size]
                  ELSE [adder EXCEPT !.sent = sent, !.pc = "returned",
                                     !.result = FALSE]
    /\ UNCHANGED <<run, cleaner, parser, search>>

\* The loop is over: return True.
AddReturnsTrue ==
    /\ adder.pc = "loop"
    /\ adder.i >= Len(adder.track_uris)
    /\ adder' = [adder EXCEPT !.pc = "returned", !.result = TRUE]
    /\ UNCHANGED <<run, cleaner, parser, search>>

NextAdd ==
    \/ SendBatch
    \/ AddReturnsTrue

SpecAdd == InitAdd /\ [][NextAdd]_vars

(***************************************************************************)
(* Properties of the run                                                   *)
(***************************************************************************)

\* The positions of the accepted songs, and the rank of position k among them.
FoundIdx(sgs) == {k \in 1..Len(sgs) : sgs[k].found}
Rank(sgs, k) == Cardinality({m \in FoundIdx(sgs) : m <= k})

\* uris lists the URIs of the accepted songs of sgs, each once, in their order.
IsCommitSetOf(uris, sgs) ==
    /\ Len(uris) = Cardinality(FoundIdx(sgs))
    /\ \A k \in FoundIdx(sgs) : uris[Rank(sgs, k)] = sgs[k].spotify_uri

\* The item loop has run to its end and successful_tracks has been built.
LoopFinished ==
    \/ pc \in {"create", "add"}
    \/ pc \in {"finally", "returned", "done"} /\ video_titles # <<>>

\* C1: once every entry is processed, successful_tracks is exactly the
\* spotify_uri values of the songs with found = TRUE, in the order of the
\* source entries: nothing rejected, unresolved or failed is in it, nothing
\* accepted is missing or out of place.
C1_CommitSetIsAcceptedInOrder ==
    LoopFinished =>
        /\ Len(songs) = Len(video_titles)
        /\ \A k \in 1..Len(songs) :
               songs[k].original_title = video_titles[k].title
        /\ IsCommitSetOf(successful_tracks, songs)

\* A run that commits one track of two: the first song was rejected with a
\* URI, the second accepted.
C1_Witness ==
    /\ pc = "add"
    /\ Len(songs) = 2
    /\ ~songs[1].found /\ songs[1].spotify_uri # ""
    /\ songs[2].found
    /\ successful_tracks = <<songs[2].spotify_uri>>

\* C2: in every state of a run the counters satisfy
\* successful_matches + not_found + errors = total_songs.
C2_CountersSumToTotal ==
    stats.successful_matches + stats.not_found + stats.errors = stats.total_songs

\* Every search_track call made for the current video returned None.
AllSearchesNone == \A q \in 1..Len(queries) : queries[q].result = "none"

\* Recording a video whose searches all returned None.
RecordsNoMatchAsNotFound ==
    (pc = "processed" /\ pc' = "loop" /\ queries # <<>> /\ AllSearchesNone) =>
        /\ song.error = "No matches found on Spotify"
        /\ ~song.found
        /\ songs' = Append(songs, song)
        /\ stats'.not_found = stats.not_found + 1
        /\ stats'.errors = stats.errors

\* C3: a video for which every search returns None is recorded with the
\* no-match reason, is not accepted (so not committed), and recording it adds
\* 1 to not_found and nothing to errors.
C3_NoMatchCountsAsNotFound == [][RecordsNoMatchAsNotFound]_vars

\* Processing the current video raised an exception: in search_track, or in
\* the scoring branch (a track without artists).
ItemRaised ==
    \/ queries # <<>> /\ queries[Len(queries)].result = "raise"
    \/ spotify_track # NoTrack /\ spotify_track.artists = <<>>

\* Recording a video whose processing raised an exception.
RecordsExceptionAsError ==
    (pc = "processed" /\ pc' = "loop" /\ ItemRaised) =>
        /\ ~song.found
        /\ songs' = Append(songs, song)
        /\ stats'.errors = stats.errors + 1
        /\ i' = i + 1

\* C4: an exception raised while one video is processed, whatever its
\* message, is caught for that video: the song is recorded unaccepted, the
\* errors counter grows by 1 and the loop goes on with the next video.
C4_ExceptionCountsAsError == [][RecordsExceptionAsError]_vars

\* The artist and title parse_title gives for the label of the current song.
ParsedArtist == parse_title(song.original_title)[1]
ParsedTitle == parse_title(song.original_title)[2]

\* The current video has been scored against the track the search returned.
ItemScored == pc = "processed" /\ scorings = 1

C6_InterruptKeepsProcessedSongs ==
    (pc = "cancelled" /\ songs # <<>>) =>
        /\ stats.end_time = "now"
        /\ ret # <<>>
        /\ ret[1] = songs
        /\ ret[2] = stats

\* The number of calls of op among the calls made to Spotify.
CallCount(op) ==
    Cardinality({c \in 1..Len(spotify_calls) : spotify_calls[c].op = op})

\* C7: create_playlist and add_tracks_to_playlist are not called while a
\* video is unprocessed, each is called at most once, and
\* add_tracks_to_playlist gets the whole commit set of the run.
C7_CommitOnceAfterAllItems ==
    /\ spotify_calls # <<>> =>
           /\ Len(songs) = Len(video_titles)
           /\ pc \notin {"loop", "strategy1", "strategy2", "strategy3", "score",
                         "processed"}
    /\ CallCount("create_playlist") <= 1
    /\ CallCount("add_tracks_to_playlist") <= 1
    /\ \A c \in 1..Len(spotify_calls) :
           spotify_calls[c].op = "add_tracks_to_playlist" =>
               /\ c = 2
               /\ spotify_calls[1].op = "create_playlist"
               /\ IsCommitSetOf(spotify_calls[c].uris, songs)

\* Both calls were made, the second with two tracks.
C7_Witness ==
    /\ pc = "finally"
    /\ Len(spotify_calls) = 2
    /\ Len(spotify_calls[2].uris) = 2

\* The queries of the strategies that apply to the current song, in the
\* order working artist, cleaned channel, title alone.
ExpectedQueries ==
    LET channel == song.channel_name
        cleaned == clean_channel_name(channel)
    IN (IF song.artist # <<>> /\ song.title # <<>>
        THEN << <<song.artist, song.title>> >> ELSE <<>>)
       \o (IF channel # <<>> /\ channel # song.artist /\ cleaned # <<>>
              /\ song.title # <<>>
           THEN << <<cleaned, song.title>> >> ELSE <<>>)
       \o (IF song.title # <<>> THEN << <<<<>>, song.title>> >> ELSE <<>>)

InSearch == pc \in {"strategy1", "strategy2", "strategy3"}

\* C8: the searches for one video are made in the order (working artist,
\* title), (cleaned channel, title), ("", title); no search follows one that
\* returned a track, which is the track handed on; None is the result only
\* when every applicable strategy was tried and returned None; nothing is
\* scored during the search.
C8_OrderedFallback ==
    pc \in {"strategy1", "strategy2", "strategy3", "score", "processed"} =>
        /\ Len(queries) <= Len(ExpectedQueries)
        /\ \A q \in 1..Len(queries) :
               /\ <<queries[q].artist, queries[q].title>> = ExpectedQueries[q]
               /\ q < Len(queries) => queries[q].result = "none"
        /\ InSearch => AllSearchesNone /\ scorings = 0 /\ spotify_track = NoTrack
        /\ pc = "strategy1" => queries = <<>>
        /\ pc = "strategy2" =>
               Len(queries) = IF song.artist # <<>> /\ song.title # <<>>
                              THEN 1 ELSE 0
        /\ pc = "strategy3" =>
               Len(queries) = IF song.title # <<>>
                              THEN Len(ExpectedQueries) - 1 ELSE 0
        /\ pc = "score" =>
               IF spotify_track = NoTrack
               THEN Len(queries) = Len(ExpectedQueries) /\ AllSearchesNone
               ELSE queries # <<>> /\ queries[Len(queries)].result = "track"

\* The third strategy found the track after the first two returned None.
C8_Witness ==
    /\ pc = "score"
    /\ Len(queries) = 3
    /\ queries[3].result = "track"
    /\ queries[3].artist = <<>>
    /\ queries[1].artist # queries[2].artist

\* The URL has no playlist id, or the extraction came back empty.
InputError ==
    \/ extract_playlist_id(youtube_url) = None
    \/ pc \notin {"extract_id", "fetch", "fetched"} /\ video_titles = <<>>

\* C9: without a playlist id, or with an empty extraction, the run ends
\* without processing a video and without calling create_playlist or
\* add_tracks_to_playlist, and returns statistics with end_time set and
\* every outcome counter 0.
C9_InputErrorEndsRun ==
    InputError =>
        /\ pc \in {"extract_id", "except", "finally", "returned", "done",
                   "cancelled"}
        /\ extract_playlist_id(youtube_url) = None =>
               videos = <<>> /\ next_page_token = "None"
        /\ songs = <<>> /\ queries = <<>> /\ scorings = 0
        /\ spotify_calls = <<>> /\ playlist = <<>>
        /\ stats.successful_matches = 0 /\ stats.not_found = 0
        /\ stats.errors = 0 /\ stats.total_songs = 0
        /\ pc \in {"returned", "done"} =>
               ret = <<<<>>, stats>> /\ stats.end_time = "now"

\* A run for a URL with a playlist id that ended because the extraction
\* came back empty.
C9_Witness ==
    /\ pc = "done"
    /\ playlist_id # None
    /\ video_titles = <<>>
    /\ stats.end_time = "now"

\* create_playlist returned None, or add_tracks_to_playlist returned False.
DestinationFailed ==
    \/ Len(spotify_calls) = 1 /\ pc \in {"finally", "returned", "done"}
    \/ Len(spotify_calls) = 2 /\ playlist # successful_tracks

\* The songs and counters are those the item loop ended with.
AsAtLoopEnd ==
    /\ Len(songs) = Len(video_titles)
    /\ stats.total_songs = Len(video_titles)
    /\ stats.successful_matches = Cardinality(FoundIdx(songs))
    /\ stats.successful_matches + stats.not_found + stats.errors = Len(songs)

\* After a failure the songs and counters are the loop's, and what
\* migrate_playlist returns is them, with end_time set.
KeptAndReturned ==
    /\ AsAtLoopEnd
    /\ pc \in {"returned", "done"} =>
           ret = <<songs, stats>> /\ stats.end_time = "now"

\* No step from the commit phase on changes the songs or a counter, and the
\* commit phase leads to the finally clause, which leads to the return.
CommitPhaseKeepsResults ==
    pc \in {"create", "add", "finally", "returned"} =>
        /\ songs' = songs
        /\ [stats' EXCEPT !.end_time = "None"] = [stats EXCEPT !.end_time = "None"]
        /\ pc \in {"create", "add"} => pc' \in {"add", "finally", "cancelled"}
        /\ pc = "finally" => pc' = "returned"

\* C10: when create_playlist returns None or add_tracks_to_playlist returns
\* False, the songs and the outcome counters stay as the item loop left them,
\* and migrate_playlist returns them with end_time set.
C10_DestinationFailureKeepsResults ==
    [](DestinationFailed => KeptAndReturned) /\ [][CommitPhaseKeepsResults]_vars

\* A run of two videos returned after add_tracks_to_playlist wrote nothing.
C10_Witness ==
    /\ pc = "returned"
    /\ Len(spotify_calls) = 2
    /\ playlist = <<>>
    /\ Len(songs) = 2
    /\ ret[2].end_time = "now"

\* The search returned a track whose first artist and whose name equal the
\* artist and title parsed from the label, up to case.
ExactMatch ==
    /\ ItemScored
    /\ ParsedArtist # <<>> /\ ParsedTitle # <<>>
    /\ Lower(spotify_track.artists[1]) = Lower(ParsedArtist)
    /\ Lower(spotify_track.name) = Lower(ParsedTitle)

\* _process_song hands the scored song to migrate_playlist as it is.
ScoredSongRecorded == pc = "processed" /\ pc' = "loop" => songs' = Append(songs, song)

\* C11: a video whose label parses to a non-empty artist and title, and whose
\* search result has a first artist and a name equal to them up to case, gets
\* confidence 1.0 and is accepted under the default threshold 0.5 with the
\* URI of that track; the song is recorded as scored, and once the loop is
\* over the URI of every song of confidence 1.0 is in successful_tracks.
C11_ExactMatchIsCommitted ==
    /\ [](ExactMatch => /\ song.match_confidence = 1000
                        /\ song.found
                        /\ song.spotify_uri = spotify_track.uri)
    /\ [][ScoredSongRecorded]_vars
    /\ [](LoopFinished =>
            \A k \in 1..Len(songs) :
                songs[k].match_confidence = 1000 =>
                    /\ songs[k].found
                    /\ \E m \in 1..Len(successful_tracks) :
                           successful_tracks[m] = songs[k].spotify_uri)

\* The label "A-b" matched with the track "b" by "a": the parsed artist
\* differs from the track's artist in case only, and the song is accepted
\* with confidence 1.0.
C11_Witness ==
    /\ ExactMatch
    /\ ParsedArtist # spotify_track.artists[1]
    /\ song.match_confidence = 1000
    /\ song.found

\* C12: _clean_channel_name is idempotent: cleaning the result of a call
\* again gives the same result, also for channels that end with several of
\* the removable tokens in any order.
C12_CleanIsIdempotent ==
    cleaner.pc = "twice" => cleaner.twice = cleaner.once

\* The channel ends with a removable token that is glued to a longer word:
\* the character before the token is not a blank.
BareEnding(channel) ==
    \E k \in 1..Len(suffixes_to_remove) :
        /\ EndsWith(channel, suffixes_to_remove[k])
        /\ Len(channel) > Len(suffixes_to_remove[k])
        /\ ~IsSpace(channel[Len(channel) - Len(suffixes_to_remove[k])])

\* The channel ends with one of the removable tokens.
EndsWithToken(channel) ==
    \E k \in 1..Len(suffixes_to_remove) :
        EndsWith(channel, suffixes_to_remove[k])

\* C13 as stated: a channel that ends with a removable token as part of a
\* longer word (the token is not preceded by a word boundary, as "TV" in
\* "ATV") is returned unchanged.
C13_BareTokenIsKept ==
    cleaner.pc = "once" /\ BareEnding(cleaner.channel) =>
        cleaner.once = cleaner.channel

\* C13 amended: a removable token at the end of the channel is removed also
\* when it is part of a longer word ("ATV" becomes "A"); the channel is
\* returned unchanged exactly when it has no blank at either end and ends
\* with none of the removable tokens.
C13_TokenIsRemovedAlsoGlued ==
    cleaner.pc = "once" =>
        /\ (cleaner.once = cleaner.channel) <=>
               /\ Strip(cleaner.channel) = cleaner.channel
               /\ ~EndsWithToken(cleaner.channel)
        /\ BareEnding(cleaner.channel) =>
               Len(cleaner.once) < Len(cleaner.channel)

\* "ATV" cleaned to "A".
C13_Witness ==
    /\ cleaner.pc = "once"
    /\ cleaner.channel = <<"A", "T", "V">>
    /\ cleaner.once = <<"A">>

\* C14: a result of parse_title that comes from one of the five patterns has
\* a non-empty artist and a non-empty title: a pattern whose left or right
\* group is empty after trimming is passed over for the next pattern.
C14_PatternSidesNonEmpty ==
    parser.pc = "parsed" /\ parser.pattern # 0 =>
        parser.artist # <<>> /\ parser.title # <<>>

\* C15: the title parse_title returns for a non-empty label is non-empty,
\* also for a label made of decoration only.
C15_TitleNonEmpty ==
    parser.pc = "parsed" /\ parser.label # <<>> => parser.title # <<>>

\* Every response of a call of _make_request was a 429 or an exception.
AllFailed(call) ==
    \A r \in 1..Len(call.responses) : call.responses[r] \in Failures

\* A turn of the loop of _make_request that stays in the call makes the
\* next attempt: the attempts left go down by one.
AttemptsGoDown ==
    search.pc = "request" /\ search'.pc = "request" =>
        search'.attempt = search.attempt + 1

\* C16: a call of _make_request sends at most 3 HTTP requests, whatever mix
\* of 429 responses and exceptions of requests it meets: each turn of its
\* loop sends one request and uses up one of three attempts, and a call in
\* progress always has a step to take.  A call whose three requests were all
\* rate-limited or failed returns None and raises nothing, so a search_track
\* all of whose requests failed returns None.
C16_ThreeRequestsThenNone ==
    /\ [](search.pc = "request" =>
            /\ Len(search.sent) = search.attempt
            /\ search.attempt <= 3
            /\ ENABLED (Attempt \/ Exhausted))
    /\ [][AttemptsGoDown]_vars
    /\ [](search.pc # "not called" =>
            \A c \in 1..Len(search.made) :
                /\ Len(search.made[c].responses) <= 3
                /\ AllFailed(search.made[c]) =>
                       /\ Len(search.made[c].responses) = 3
                       /\ search.made[c].data = "None")
    /\ [](/\ search.pc \in {"returned", "raised"}
          /\ \A c \in 1..Len(search.made) : AllFailed(search.made[c])
          => search.pc = "returned" /\ search.result = NoTrack)

\* search_track returned None after three calls of _make_request, the first
\* of three 429 responses, the second of three exceptions, the third of a
\* mix of both.
C16_Witness ==
    /\ search.pc = "returned"
    /\ search.result = NoTrack
    /\ Len(search.made) = 3
    /\ search.made[1].responses = <<"429", "429", "429">>
    /\ search.made[2].responses = <<"error", "error", "error">>
    /\ search.made[3].responses = <<"429", "error", "429">>
    /\ \A c \in 1..3 : search.made[c].data = "None"

\* get_playlist_videos left its loop by the except clause: the token of a
\* page still to be fetched is set, or, after a failed first request,
\* nothing was collected.
PageRequestFailed ==
    pc = "fetched" /\ (next_page_token # "None" \/ videos = <<>>)

\* After a failed page request the run ends by the ValueError or by an
\* interrupt, without entering the loop over the videos.
FailedListingEndsRun ==
    PageRequestFailed => pc' \in {"except", "cancelled"}

\* C17: when a page request of get_playlist_videos fails, on the first page
\* or on a later one, the videos fetched so far are not processed: the run
\* goes to its error path, so that no playlist is created from a truncated
\* listing.
C17_NoRunOnTruncatedListing == [][FailedListingEndsRun]_vars

\* C18: the search_track calls made for one video all differ in their
\* (artist, title) pair.
C18_NoRepeatedQuery ==
    \A a, b \in 1..Len(queries) :
        a # b => <<queries[a].artist, queries[a].title>>
                     # <<queries[b].artist, queries[b].title>>

\* The URIs of the batches posted so far, in the order of posting.
Posted == Flatten([b \in 1..Len(adder.sent) |-> adder.sent[b].uris])

\* C19: add_tracks_to_playlist posts the URIs in consecutive batches of at
\* most 100, in their order, each URI in one batch; the first batch whose
\* request fails is the last one posted and the function returns False, with
\* the batches before it written; it returns True only when every batch was
\* posted with success.
C19_BatchesInOrderUntilFailure ==
    adder.pc # "not called" =>
        /\ \A b \in 1..Len(adder.sent) :
               /\ Len(adder.sent[b].uris) \in 1..100
               /\ b < Len(adder.sent) =>
                      adder.sent[b].ok /\ Len(adder.sent[b].uris) = 100
        /\ Posted = SubSeq(adder.track_uris, 1, Len(Posted))
        /\ adder.pc = "loop" =>
               /\ \A b \in 1..Len(adder.sent) : adder.sent[b].ok
               /\ adder.written = Posted
        /\ adder.pc = "returned" /\ adder.result =>
               /\ \A b \in 1..Len(adder.sent) : adder.sent[b].ok
               /\ Posted = adder.track_uris
               /\ adder.written = adder.track_uris
        /\ adder.pc = "returned" /\ ~adder.result =>
               /\ adder.sent # <<>>
               /\ ~adder.sent[Len(adder.sent)].ok
               /\ adder.written \o adder.sent[Len(adder.sent)].uris = Posted

\* 201 tracks: the first batch of 100 was written, the second failed, the
\* third was never posted and the function returned False.
C19_Witness ==
    /\ adder.pc = "returned"
    /\ ~adder.result
    /\ Len(adder.track_uris) = 201
    /\ Len(adder.sent) = 2
    /\ adder.written = SubSeq(adder.track_uris, 1, 100)

====
